---- MODULE Spec2Model ----
(***************************************************************************)
(* Ensemble inference pipeline of server/lib/predict.py: lazy loading of   *)
(* the vectorizer and the four classifiers, per-model invocation with its  *)
(* own try/except, vote and confidence aggregation, the LIAR-scale mapping *)
(* and the two callers (main() of predict.py, test_prediction() of         *)
(* test_predict.py).                                                       *)
(*                                                                         *)
(* Numbers.  A probability is an integer number of tenths (7 is 0.7).  A   *)
(* confidence is a fraction <<num, den>> with den > 0, so that np.mean is  *)
(* the exact quotient sum/len and the comparisons with 0.5, 0.6 and 0.8    *)
(* are exact cross-multiplications.                                        *)
(***************************************************************************)
EXTENDS Integers, Sequences, FiniteSets, TLC

\* Number of predict_ensemble requests the library caller issues in one process.
MaxCalls == 3
\* Longest command-line text given to main().
MaxTextLen == 1

\* Number of threads calling predict_ensemble concurrently in one process.
NumThreads == 2

\* Largest denominator of the confidences given to convert_to_liar_scale.
MaxDen == 20
\* Significant bits of the floats of SpecOrder.
Precision == 3

None == "None"
Loaded == "object"

Classifiers == {"modelbnb.pkl", "modelDTC.pkl", "model2.pkl", "rfmodel.pkl"}
Vectorizer == "tfidfvect2.pkl"
Artifacts == Classifiers \cup {Vectorizer}
FileStates == {"ok", "missing", "corrupt"}

\* Probabilities a model may report, in tenths.
ProbValues == {0, 2, 5, 6, 7, 8, 9, 10}
Labels == {0, 1}

Chars == {" ", "a"}
Texts == UNION {[1..n -> Chars] : n \in 0..MaxTextLen}
\* sys.argv[1:] : no argument at all, or one text.
ArgLists == {<<>>} \cup {<<t>> : t \in Texts}

VARIABLES
    disk,           \* the files of fakenews-models/: Artifacts -> FileStates
    models_loaded, B, DCT, PCA, rf, tfidfvect,   \* module globals, lines 26-31
    caller,         \* "main" or "test_prediction"
    argv,           \* sys.argv[1:]
    pc,             \* position of the single thread; under SpecConc, of each thread
    calls,          \* iterations of test_prediction's loop completed
    predictions, prob_values,   \* locals of predict_ensemble, lines 145-146
    exc,            \* the exception in flight or last caught, "none" otherwise; under SpecConc, per thread
    ret,            \* value returned by predict_ensemble, None before
    liar_prediction,            \* local of the caller, None before
    stdout,         \* JSON values main() printed on stdout
    exit_status,    \* None while running, then the process exit status
    results,        \* history: the ModelResult sequence of the current call
    failed,         \* history: files of the classifiers whose invocation raised in the current call
    loads,          \* history: pickle.load attempts per artifact in this process
    stores          \* history: successful pickle.load results stored per artifact

globals == <<models_loaded, B, DCT, PCA, rf, tfidfvect>>
locals == <<predictions, prob_values, ret, liar_prediction, results, failed>>
hist == <<loads, stores>>
vars == <<disk, globals, caller, argv, pc, calls, locals, exc, stdout, exit_status, hist>>

----------------------------------------------------------------------------
(* Text helpers used by main(), lines 247-251 *)

RECURSIVE lstrip(_)
lstrip(t) == IF t # <<>> /\ Head(t) = " " THEN lstrip(Tail(t)) ELSE t

RECURSIVE rstrip(_)
rstrip(t) == IF t # <<>> /\ t[Len(t)] = " " THEN rstrip(SubSeq(t, 1, Len(t) - 1)) ELSE t

strip(t) == rstrip(lstrip(t))

\* Bug variant: the text tested for emptiness only, whitespace not stripped.
NoUsableTextUnstripped(args) ==
    IF Len(args) < 1 THEN TRUE
    ELSE args[1] = <<>>

\* main() lines 242 and 249: no argument, or `not text or len(text.strip()) == 0`.
NoUsableText(args) ==
    IF Len(args) < 1 THEN TRUE
    ELSE IF args[1] = <<>> THEN TRUE
    ELSE Len(strip(args[1])) = 0

----------------------------------------------------------------------------
(* load_models, lines 33-100 *)

\* Lines 49-53: the model directory is found iff rfmodel.pkl exists in it.
ModelDirFound(d) == d["rfmodel.pkl"] # "missing"

\* pickle.load(open(file)) inside its own try/except, lines 62-84: the
\* deserialized object, or None when open or pickle.load raised.
LoadClassifier(d, file) == IF d[file] = "ok" THEN Loaded ELSE None

\* Bug variant: the check of line 93 missing.
NoClassifierUnchecked(b, d, p, r) == FALSE

\* Line 93.
NoClassifier(b, d, p, r) == b = None /\ d = None /\ p = None /\ r = None

\* What open/pickle.load of the vectorizer raises, lines 86-90.
VectorizerError(d) == IF d[Vectorizer] = "missing" THEN "FileNotFoundError" ELSE "UnpicklingError"

Bump(f, a) == [f EXCEPT ![a] = @ + 1]

Init ==
    /\ disk \in [Artifacts -> FileStates]
    /\ models_loaded = FALSE
    /\ B = None /\ DCT = None /\ PCA = None /\ rf = None /\ tfidfvect = None
    /\ caller \in {"main", "test_prediction"}
    /\ argv \in ArgLists
    /\ (caller = "test_prediction" => argv = <<>>)
    /\ pc = "start"
    /\ calls = 0
    /\ predictions = <<>> /\ prob_values = <<>>
    /\ exc = "none"
    /\ ret = None
    /\ liar_prediction = None
    /\ stdout = <<>>
    /\ exit_status = None
    /\ results = <<>>
    /\ failed = {}
    /\ loads = [a \in Artifacts |-> 0]
    /\ stores = [a \in Artifacts |-> 0]

\* The global each classifier file is loaded into, lines 63-81.
Slot(file) ==
    CASE file = "modelbnb.pkl" -> B
      [] file = "modelDTC.pkl" -> DCT
      [] file = "model2.pkl" -> PCA
      [] file = "rfmodel.pkl" -> rf

\* Bug variant: no short-circuit, every call loads again.
LoadCheckAlways ==
    /\ pc = "load_models"
    /\ pc' = "find_dir"
    /\ UNCHANGED <<disk, globals, caller, argv, calls, locals, exc, stdout, exit_status, hist>>

\* Line 37-38: return at once when the registry is already loaded.
LoadCheck ==
    /\ pc = "load_models"
    /\ pc' = IF models_loaded THEN "vectorize" ELSE "find_dir"
    /\ UNCHANGED <<disk, globals, caller, argv, calls, locals, exc, stdout, exit_status, hist>>

\* Bug variant: the registry marked loaded as soon as the directory is found.
LoadFindDirMarksLoaded ==
    /\ pc = "find_dir"
    /\ IF ModelDirFound(disk)
         THEN pc' = "load_B" /\ exc' = exc /\ models_loaded' = TRUE
         ELSE pc' = "raised" /\ exc' = "FileNotFoundError" /\ models_loaded' = models_loaded
    /\ UNCHANGED <<disk, B, DCT, PCA, rf, tfidfvect, caller, argv, calls, locals, stdout, exit_status, hist>>

\* Lines 42-56, and the outer except of lines 98-100 re-raising.
LoadFindDir ==
    /\ pc = "find_dir"
    /\ IF ModelDirFound(disk)
         THEN pc' = "load_B" /\ exc' = exc
         ELSE pc' = "raised" /\ exc' = "FileNotFoundError"
    /\ UNCHANGED <<disk, globals, caller, argv, calls, locals, stdout, exit_status, hist>>

\* Lines 62-66.
LoadB ==
    /\ pc = "load_B"
    /\ B' = LoadClassifier(disk, "modelbnb.pkl")
    /\ loads' = Bump(loads, "modelbnb.pkl")
    /\ stores' = IF B' # None THEN Bump(stores, "modelbnb.pkl") ELSE stores
    /\ pc' = "load_DCT"
    /\ UNCHANGED <<disk, models_loaded, DCT, PCA, rf, tfidfvect, caller, argv, calls, locals, exc, stdout, exit_status>>

\* Lines 68-72.
LoadDCT ==
    /\ pc = "load_DCT"
    /\ DCT' = LoadClassifier(disk, "modelDTC.pkl")
    /\ loads' = Bump(loads, "modelDTC.pkl")
    /\ stores' = IF DCT' # None THEN Bump(stores, "modelDTC.pkl") ELSE stores
    /\ pc' = "load_PCA"
    /\ UNCHANGED <<disk, models_loaded, B, PCA, rf, tfidfvect, caller, argv, calls, locals, exc, stdout, exit_status>>

\* Lines 74-78.
LoadPCA ==
    /\ pc = "load_PCA"
    /\ PCA' = LoadClassifier(disk, "model2.pkl")
    /\ loads' = Bump(loads, "model2.pkl")
    /\ stores' = IF PCA' # None THEN Bump(stores, "model2.pkl") ELSE stores
    /\ pc' = "load_rf"
    /\ UNCHANGED <<disk, models_loaded, B, DCT, rf, tfidfvect, caller, argv, calls, locals, exc, stdout, exit_status>>

\* Lines 80-84.
LoadRf ==
    /\ pc = "load_rf"
    /\ rf' = LoadClassifier(disk, "rfmodel.pkl")
    /\ loads' = Bump(loads, "rfmodel.pkl")
    /\ stores' = IF rf' # None THEN Bump(stores, "rfmodel.pkl") ELSE stores
    /\ pc' = "load_vect"
    /\ UNCHANGED <<disk, models_loaded, B, DCT, PCA, tfidfvect, caller, argv, calls, locals, exc, stdout, exit_status>>

\* Bug variant: the vectorizer handled like a classifier, its failure tolerated.
LoadVectorizerTolerant ==
    /\ pc = "load_vect"
    /\ loads' = Bump(loads, Vectorizer)
    /\ tfidfvect' = IF disk[Vectorizer] = "ok" THEN Loaded ELSE None
    /\ stores' = IF disk[Vectorizer] = "ok" THEN Bump(stores, Vectorizer) ELSE stores
    /\ pc' = "check_any"
    /\ UNCHANGED <<disk, models_loaded, B, DCT, PCA, rf, caller, argv, calls, locals, exc, stdout, exit_status>>

\* Lines 86-90, and the outer except of lines 98-100 re-raising.
LoadVectorizer ==
    /\ pc = "load_vect"
    /\ loads' = Bump(loads, Vectorizer)
    /\ IF disk[Vectorizer] = "ok"
         THEN /\ tfidfvect' = Loaded
              /\ stores' = Bump(stores, Vectorizer)
              /\ pc' = "check_any"
              /\ exc' = exc
         ELSE /\ tfidfvect' = tfidfvect
              /\ stores' = stores
              /\ pc' = "raised"
              /\ exc' = VectorizerError(disk)
    /\ UNCHANGED <<disk, models_loaded, B, DCT, PCA, rf, caller, argv, calls, locals, stdout, exit_status>>

\* Lines 92-96, and the outer except of lines 98-100 re-raising.
LoadFinish ==
    /\ pc = "check_any"
    /\ IF NoClassifier(B, DCT, PCA, rf)
         THEN /\ pc' = "raised"
              /\ exc' = "ValueError"
              /\ models_loaded' = models_loaded
         ELSE /\ pc' = "vectorize"
              /\ exc' = exc
              /\ models_loaded' = TRUE
    /\ UNCHANGED <<disk, B, DCT, PCA, rf, tfidfvect, caller, argv, calls, locals, stdout, exit_status, hist>>

----------------------------------------------------------------------------
(* Exact arithmetic on fractions <<num, den>>, den > 0 *)

Half == <<1, 2>>
FracLess(x, y) == x[1] * y[2] < y[1] * x[2]
FracEq(x, y) == x[1] * y[2] = y[1] * x[2]
FracSub(x, y) == <<x[1] * y[2] - y[1] * x[2], x[2] * y[2]>>
FracAbs(x) == <<IF x[1] < 0 THEN -x[1] ELSE x[1], x[2]>>
FracTimes(x, k) == <<x[1] * k, x[2]>>
Tenths(k) == <<k, 10>>

RECURSIVE SumSeq(_)
SumSeq(s) == IF s = <<>> THEN 0 ELSE Head(s) + SumSeq(Tail(s))

\* np.mean of a non-empty list: the sum divided by the length.
Mean(s) == <<SumSeq(s), Len(s)>>

----------------------------------------------------------------------------
(* predict_ensemble, lines 128-211 *)

\* What one classifier does on one feature vector: it raises, or it yields a
\* hard label and (when it has one) the probability of class 1, in tenths.
Raises == [raised |-> TRUE]
ProbOutcomes == {Raises} \cup [raised : {FALSE}, label : Labels, prob : ProbValues]
LabelOutcomes == {Raises} \cup [raised : {FALSE}, label : Labels]

\* Lines 196-202: the vote.
FinalPredict(preds) == Mean(preds)
\* Bug variant: a tie at exactly 0.5 counted as FAKE.
PredictionLabelTieFake(final_predict) == IF FracLess(Half, final_predict) THEN "REAL" ELSE "FAKE"
PredictionLabel(final_predict) == IF FracLess(final_predict, Half) THEN "FAKE" ELSE "REAL"

\* Bug variant: the probabilities averaged over all votes, decision tree included.
FinalProbOverAllVotes(probs, final_predict) ==
    IF probs # <<>>
      THEN <<SumSeq(probs), final_predict[2] * 10>>
      ELSE FracTimes(FracAbs(FracSub(final_predict, Half)), 2)

\* Bug variant: the probabilities summed, not averaged.
FinalProbSummed(probs, final_predict) ==
    IF probs # <<>>
      THEN <<SumSeq(probs), 10>>
      ELSE FracTimes(FracAbs(FracSub(final_predict, Half)), 2)

\* Bug variant: the confidence taken in the chosen label, the mean
\* probability of class 1 mirrored for a FAKE verdict.
FinalProbOfChosenLabel(probs, final_predict) ==
    IF probs # <<>>
      THEN IF FracLess(final_predict, Half)
             THEN <<Len(probs) * 10 - SumSeq(probs), Len(probs) * 10>>
             ELSE <<SumSeq(probs), Len(probs) * 10>>
      ELSE FracTimes(FracAbs(FracSub(final_predict, Half)), 2)

\* Lines 204-209: the confidence.
FinalProb(probs, final_predict) ==
    IF probs # <<>>
      THEN <<Mean(probs)[1], Mean(probs)[2] * 10>>
      ELSE FracTimes(FracAbs(FracSub(final_predict, Half)), 2)

\* Bug variant: non-strict comparisons, the boundaries in the upper bucket.
convert_to_liar_scale_inclusive(prediction_label, confidence) ==
    IF prediction_label = "FAKE"
      THEN IF ~FracLess(confidence, Tenths(8)) THEN 0
           ELSE IF ~FracLess(confidence, Tenths(6)) THEN 1
           ELSE 2
      ELSE IF ~FracLess(confidence, Tenths(8)) THEN 5
           ELSE IF ~FracLess(confidence, Tenths(6)) THEN 4
           ELSE 3

\* Lines 213-238.
convert_to_liar_scale(prediction_label, confidence) ==
    IF prediction_label = "FAKE"
      THEN IF FracLess(Tenths(8), confidence) THEN 0
           ELSE IF FracLess(Tenths(6), confidence) THEN 1
           ELSE 2
      ELSE IF FracLess(Tenths(8), confidence) THEN 5
           ELSE IF FracLess(Tenths(6), confidence) THEN 4
           ELSE 3

\* Lines 139-146: preprocess the text, vectorize it, start with empty lists.
\* transform is a call into the unpickled object and may raise.
Vectorize ==
    /\ pc = "vectorize"
    /\ \E ok \in BOOLEAN :
         IF tfidfvect # None /\ ok
           THEN pc' = "run_B" /\ exc' = exc
           ELSE /\ pc' = "raised"
                /\ exc' = IF tfidfvect = None THEN "AttributeError" ELSE "Exception"
    /\ predictions' = <<>> /\ prob_values' = <<>>
    /\ results' = <<>> /\ failed' = {}
    /\ UNCHANGED <<disk, globals, caller, argv, calls, ret, liar_prediction, stdout, exit_status, hist>>

\* Bug variant: the label appended before the call that raises, so a
\* failing model leaves a vote without a probability.
WithProbabilityLabelFirst(file, o) ==
    IF o.raised
      THEN /\ failed' = failed \cup {file}
           /\ \E l \in Labels : predictions' = Append(predictions, l)
           /\ UNCHANGED <<prob_values, results>>
      ELSE /\ predictions' = Append(predictions, o.label)
           /\ prob_values' = Append(prob_values, o.prob)
           /\ results' = Append(results, [model |-> file, binary_prediction |-> o.label, probability |-> o.prob])
           /\ failed' = failed

\* The body of one try block of a model that reports a probability: both
\* appends happen after every call into the model has returned.
WithProbability(file, o) ==
    IF o.raised
      THEN /\ failed' = failed \cup {file}
           /\ UNCHANGED <<predictions, prob_values, results>>
      ELSE /\ predictions' = Append(predictions, o.label)
           /\ prob_values' = Append(prob_values, o.prob)
           /\ results' = Append(results, [model |-> file, binary_prediction |-> o.label, probability |-> o.prob])
           /\ failed' = failed

\* Lines 148-157.
RunB ==
    /\ pc = "run_B"
    /\ IF B = None
         THEN UNCHANGED <<predictions, prob_values, results, failed>>
         ELSE \E o \in ProbOutcomes : WithProbability("modelbnb.pkl", o)
    /\ pc' = "run_DCT"
    /\ UNCHANGED <<disk, globals, caller, argv, calls, ret, liar_prediction, exc, stdout, exit_status, hist>>

\* Bug variant: the decision tree invoked outside any try block, its
\* exception leaving predict_ensemble.
RunDCTUnguarded ==
    /\ pc = "run_DCT"
    /\ IF DCT = None
         THEN pc' = "run_PCA" /\ UNCHANGED <<predictions, results, failed, exc>>
         ELSE \E o \in LabelOutcomes :
                IF o.raised
                  THEN /\ failed' = failed \cup {"modelDTC.pkl"}
                       /\ pc' = "raised" /\ exc' = "Exception"
                       /\ UNCHANGED <<predictions, results>>
                  ELSE /\ predictions' = Append(predictions, o.label)
                       /\ results' = Append(results, [model |-> "modelDTC.pkl", binary_prediction |-> o.label])
                       /\ failed' = failed
                       /\ pc' = "run_PCA" /\ exc' = exc
    /\ UNCHANGED <<disk, globals, caller, argv, calls, prob_values, ret, liar_prediction, stdout, exit_status, hist>>

\* Lines 159-165: a hard label only.
RunDCT ==
    /\ pc = "run_DCT"
    /\ IF DCT = None
         THEN UNCHANGED <<predictions, results, failed>>
         ELSE \E o \in LabelOutcomes :
                IF o.raised
                  THEN /\ failed' = failed \cup {"modelDTC.pkl"}
                       /\ UNCHANGED <<predictions, results>>
                  ELSE /\ predictions' = Append(predictions, o.label)
                       /\ results' = Append(results, [model |-> "modelDTC.pkl", binary_prediction |-> o.label])
                       /\ failed' = failed
    /\ pc' = "run_PCA"
    /\ UNCHANGED <<disk, globals, caller, argv, calls, prob_values, ret, liar_prediction, exc, stdout, exit_status, hist>>

\* Lines 167-176.
RunPCA ==
    /\ pc = "run_PCA"
    /\ IF PCA = None
         THEN UNCHANGED <<predictions, prob_values, results, failed>>
         ELSE \E o \in ProbOutcomes : WithProbability("model2.pkl", o)
    /\ pc' = "run_rf"
    /\ UNCHANGED <<disk, globals, caller, argv, calls, ret, liar_prediction, exc, stdout, exit_status, hist>>

\* Lines 178-188.
RunRf ==
    /\ pc = "run_rf"
    /\ IF rf = None
         THEN UNCHANGED <<predictions, prob_values, results, failed>>
         ELSE \E o \in ProbOutcomes : WithProbability("rfmodel.pkl", o)
    /\ pc' = "aggregate"
    /\ UNCHANGED <<disk, globals, caller, argv, calls, ret, liar_prediction, exc, stdout, exit_status, hist>>

\* Lines 190-211.
Aggregate ==
    /\ pc = "aggregate"
    /\ IF predictions = <<>>
         THEN /\ pc' = "raised"
              /\ exc' = "ValueError"
              /\ ret' = ret
         ELSE /\ pc' = "returned"
              /\ exc' = exc
              /\ ret' = [prediction_label |-> PredictionLabel(FinalPredict(predictions)),
                         final_prob |-> FinalProb(prob_values, FinalPredict(predictions))]
    /\ UNCHANGED <<disk, globals, caller, argv, calls, predictions, prob_values, results, failed,
                   liar_prediction, stdout, exit_status, hist>>

----------------------------------------------------------------------------
(* main() of predict.py, lines 240-275 *)

\* The fallback of lines 244, 250, 269 and 274.
NeutralDefault == [liar_prediction |-> 3, confidence |-> Half]

\* Exceptions the `except FileNotFoundError` and `except Exception` clauses
\* of lines 266 and 271 catch.
ExceptionTypes == {"FileNotFoundError", "UnpicklingError", "ValueError", "AttributeError", "Exception"}
\* Bug variant: the generic `except Exception` clause missing.
MainCatchesNotFoundOnly(e) == e = "FileNotFoundError"
MainCatches(e) == e = "FileNotFoundError" \/ e \in ExceptionTypes

\* Lines 242-251.
MainDefault ==
    /\ caller = "main" /\ pc = "start"
    /\ NoUsableText(argv)
    /\ stdout' = Append(stdout, NeutralDefault)
    /\ exit_status' = 0
    /\ pc' = "exit"
    /\ UNCHANGED <<disk, globals, caller, argv, calls, locals, exc, hist>>

\* Lines 247-255: a usable text enters predict_ensemble, whose first
\* statement calls load_models (line 136).
MainCall ==
    /\ caller = "main" /\ pc = "start"
    /\ ~NoUsableText(argv)
    /\ pc' = "load_models"
    /\ UNCHANGED <<disk, globals, caller, argv, calls, locals, exc, stdout, exit_status, hist>>

\* Lines 258-264.
MainPrint ==
    /\ caller = "main" /\ pc = "returned"
    /\ liar_prediction' = convert_to_liar_scale(ret.prediction_label, ret.final_prob)
    /\ stdout' = Append(stdout, [liar_prediction |-> liar_prediction', confidence |-> ret.final_prob])
    /\ exit_status' = 0
    /\ pc' = "exit"
    /\ UNCHANGED <<disk, globals, caller, argv, calls, predictions, prob_values, ret, results, failed, exc, hist>>

\* Lines 266-275; an exception neither clause catches ends the process with
\* a traceback and status 1.
MainExcept ==
    /\ caller = "main" /\ pc = "raised"
    /\ IF MainCatches(exc)
         THEN stdout' = Append(stdout, NeutralDefault) /\ exit_status' = 0
         ELSE stdout' = stdout /\ exit_status' = 1
    /\ pc' = "exit"
    /\ UNCHANGED <<disk, globals, caller, argv, calls, locals, exc, hist>>

----------------------------------------------------------------------------
(* test_prediction() of test_predict.py, lines 9-45: one process that calls
   predict_ensemble once per test case *)

\* Lines 21-27: the next test case.
TestCall ==
    /\ caller = "test_prediction" /\ pc = "start"
    /\ calls < MaxCalls
    /\ pc' = "load_models"
    /\ exc' = "none"
    /\ predictions' = <<>> /\ prob_values' = <<>> /\ results' = <<>> /\ failed' = {}
    /\ ret' = None /\ liar_prediction' = None
    /\ UNCHANGED <<disk, globals, caller, argv, calls, stdout, exit_status, hist>>

\* Lines 28-39.
TestPrint ==
    /\ caller = "test_prediction" /\ pc = "returned"
    /\ liar_prediction' = convert_to_liar_scale(ret.prediction_label, ret.final_prob)
    /\ calls' = calls + 1
    /\ pc' = "start"
    /\ UNCHANGED <<disk, globals, caller, argv, predictions, prob_values, ret, results, failed,
                   exc, stdout, exit_status, hist>>

\* Lines 41-42: every exception of the call is caught and reported.
TestExcept ==
    /\ caller = "test_prediction" /\ pc = "raised"
    /\ calls' = calls + 1
    /\ pc' = "start"
    /\ UNCHANGED <<disk, globals, caller, argv, locals, exc, stdout, exit_status, hist>>

\* Lines 44-45: the loop is over.
TestDone ==
    /\ caller = "test_prediction" /\ pc = "start"
    /\ calls = MaxCalls
    /\ exit_status' = 0
    /\ pc' = "exit"
    /\ UNCHANGED <<disk, globals, caller, argv, calls, locals, exc, stdout, hist>>

----------------------------------------------------------------------------

(* A direct call of convert_to_liar_scale(label, confidence), as
   test_predict.py line 28 makes it, on an arbitrary confidence in [0,1] *)

Confidences == UNION {{<<n, d>> : n \in 0..d} : d \in 1..MaxDen}

InitScale ==
    /\ disk = [a \in Artifacts |-> "missing"]
    /\ models_loaded = FALSE
    /\ B = None /\ DCT = None /\ PCA = None /\ rf = None /\ tfidfvect = None
    /\ caller = "test_prediction"
    /\ argv = <<>>
    /\ pc = "scale"
    /\ calls = 0
    /\ predictions = <<>> /\ prob_values = <<>>
    /\ exc = "none"
    /\ ret \in [prediction_label : {"FAKE", "REAL"}, final_prob : Confidences]
    /\ liar_prediction = None
    /\ stdout = <<>>
    /\ exit_status = None
    /\ results = <<>>
    /\ failed = {}
    /\ loads = [a \in Artifacts |-> 0]
    /\ stores = [a \in Artifacts |-> 0]

\* Lines 213-238, applied to the pair held in ret.
ScaleCall ==
    /\ pc = "scale"
    /\ liar_prediction' = convert_to_liar_scale(ret.prediction_label, ret.final_prob)
    /\ pc' = "scaled"
    /\ UNCHANGED <<disk, globals, caller, argv, calls, predictions, prob_values, ret, results, failed,
                   exc, stdout, exit_status, hist>>

NextScale == ScaleCall

SpecScale == InitScale /\ [][NextScale]_vars

----------------------------------------------------------------------------

(* Several threads of one process, each calling predict_ensemble once.
   load_models takes no lock: a thread may be preempted between any two of
   its statements, so its steps interleave with those of the others.  pc
   and exc are functions of the thread here.  What a thread does after
   load_models (lines 138-211) assigns no global and is one step. *)

Threads == 1..NumThreads

InitConc ==
    /\ disk \in [Artifacts -> FileStates]
    /\ models_loaded = FALSE
    /\ B = None /\ DCT = None /\ PCA = None /\ rf = None /\ tfidfvect = None
    /\ caller = "threads"
    /\ argv = <<>>
    /\ pc = [t \in Threads |-> "load_models"]
    /\ calls = 0
    /\ predictions = <<>> /\ prob_values = <<>>
    /\ exc = [t \in Threads |-> "none"]
    /\ ret = None
    /\ liar_prediction = None
    /\ stdout = <<>>
    /\ exit_status = None
    /\ results = <<>>
    /\ failed = {}
    /\ loads = [a \in Artifacts |-> 0]
    /\ stores = [a \in Artifacts |-> 0]

\* The classifier file each loading position deserializes, and the position after it.
FileAt(p) ==
    CASE p = "load_B" -> "modelbnb.pkl"
      [] p = "load_DCT" -> "modelDTC.pkl"
      [] p = "load_PCA" -> "model2.pkl"
      [] p = "load_rf" -> "rfmodel.pkl"
AfterFile(p) ==
    CASE p = "load_B" -> "load_DCT"
      [] p = "load_DCT" -> "load_PCA"
      [] p = "load_PCA" -> "load_rf"
      [] p = "load_rf" -> "load_vect"

\* Lines 37-38, by thread t.
TLoadCheck(t) ==
    /\ pc[t] = "load_models"
    /\ pc' = [pc EXCEPT ![t] = IF models_loaded THEN "vectorize" ELSE "find_dir"]
    /\ UNCHANGED <<disk, globals, caller, argv, calls, locals, exc, stdout, exit_status, hist>>

\* Lines 42-56 and 98-100, by thread t.
TLoadFindDir(t) ==
    /\ pc[t] = "find_dir"
    /\ IF ModelDirFound(disk)
         THEN pc' = [pc EXCEPT ![t] = "load_B"] /\ exc' = exc
         ELSE pc' = [pc EXCEPT ![t] = "raised"] /\ exc' = [exc EXCEPT ![t] = "FileNotFoundError"]
    /\ UNCHANGED <<disk, globals, caller, argv, calls, locals, stdout, exit_status, hist>>

\* One of the four try blocks of lines 62-84, by thread t.
TLoadSlot(t) ==
    /\ pc[t] \in {"load_B", "load_DCT", "load_PCA", "load_rf"}
    /\ LET file == FileAt(pc[t])
           obj == LoadClassifier(disk, file)
       IN /\ B' = IF file = "modelbnb.pkl" THEN obj ELSE B
          /\ DCT' = IF file = "modelDTC.pkl" THEN obj ELSE DCT
          /\ PCA' = IF file = "model2.pkl" THEN obj ELSE PCA
          /\ rf' = IF file = "rfmodel.pkl" THEN obj ELSE rf
          /\ loads' = Bump(loads, file)
          /\ stores' = IF obj # None THEN Bump(stores, file) ELSE stores
    /\ pc' = [pc EXCEPT ![t] = AfterFile(@)]
    /\ UNCHANGED <<disk, models_loaded, tfidfvect, caller, argv, calls, locals, exc, stdout, exit_status>>

\* Lines 86-90 and 98-100, by thread t.
TLoadVectorizer(t) ==
    /\ pc[t] = "load_vect"
    /\ loads' = Bump(loads, Vectorizer)
    /\ IF disk[Vectorizer] = "ok"
         THEN /\ tfidfvect' = Loaded
              /\ stores' = Bump(stores, Vectorizer)
              /\ pc' = [pc EXCEPT ![t] = "check_any"]
              /\ exc' = exc
         ELSE /\ tfidfvect' = tfidfvect
              /\ stores' = stores
              /\ pc' = [pc EXCEPT ![t] = "raised"]
              /\ exc' = [exc EXCEPT ![t] = VectorizerError(disk)]
    /\ UNCHANGED <<disk, models_loaded, B, DCT, PCA, rf, caller, argv, calls, locals, stdout, exit_status>>

\* Lines 92-100, by thread t.
TLoadFinish(t) ==
    /\ pc[t] = "check_any"
    /\ IF NoClassifier(B, DCT, PCA, rf)
         THEN /\ pc' = [pc EXCEPT ![t] = "raised"]
              /\ exc' = [exc EXCEPT ![t] = "ValueError"]
              /\ models_loaded' = models_loaded
         ELSE /\ pc' = [pc EXCEPT ![t] = "vectorize"]
              /\ exc' = exc
              /\ models_loaded' = TRUE
    /\ UNCHANGED <<disk, B, DCT, PCA, rf, tfidfvect, caller, argv, calls, locals, stdout, exit_status, hist>>

\* Lines 138-211, by thread t: the registry is read, no global is assigned.
TInfer(t) ==
    /\ pc[t] = "vectorize"
    /\ pc' = [pc EXCEPT ![t] = "returned"]
    /\ UNCHANGED <<disk, globals, caller, argv, calls, locals, exc, stdout, exit_status, hist>>

NextConc ==
    \E t \in Threads :
        \/ TLoadCheck(t) \/ TLoadFindDir(t) \/ TLoadSlot(t)
        \/ TLoadVectorizer(t) \/ TLoadFinish(t) \/ TInfer(t)

SpecConc == InitConc /\ [][NextConc]_vars

----------------------------------------------------------------------------

Next ==
    \/ LoadCheck \/ LoadFindDir \/ LoadB \/ LoadDCT \/ LoadPCA \/ LoadRf
    \/ LoadVectorizer \/ LoadFinish
    \/ Vectorize \/ RunB \/ RunDCT \/ RunPCA \/ RunRf \/ Aggregate
    \/ MainDefault \/ MainCall \/ MainPrint \/ MainExcept
    \/ TestCall \/ TestPrint \/ TestExcept \/ TestDone

Spec == Init /\ [][Next]_vars

----------------------------------------------------------------------------
(* Claims *)

UsableTextRun == caller = "main" /\ Len(argv) = 1 /\ \E i \in DOMAIN argv[1] : argv[1][i] # " "

\* C1: a run of main() on a non-empty text that hits an unrecoverable failure
\* (model files not found, vectorizer load failure, no classifier loaded, or
\* no classifier able to predict) prints exactly [3, 0.5] and exits with
\* status 0.
C1_FailureFallsBackToNeutral ==
    (UsableTextRun /\ pc = "exit" /\ exc # "none") =>
        /\ stdout = <<[liar_prediction |-> 3, confidence |-> <<1, 2>>]>>
        /\ exit_status = 0

\* Reached: every loaded classifier raised at call time, and main() has exited.
C1_Witness ==
    /\ UsableTextRun /\ pc = "exit" /\ exc = "ValueError"
    /\ models_loaded /\ failed # {} /\ results = <<>>
    /\ exit_status = 0

\* The six rows of the threshold table that a (label, n/d) pair satisfies.
TableRows(label, c) ==
    {o \in 0..5 :
        \/ o = 0 /\ label = "FAKE" /\ 10 * c[1] > 8 * c[2]
        \/ o = 1 /\ label = "FAKE" /\ 10 * c[1] > 6 * c[2] /\ 10 * c[1] <= 8 * c[2]
        \/ o = 2 /\ label = "FAKE" /\ 10 * c[1] <= 6 * c[2]
        \/ o = 3 /\ label = "REAL" /\ 10 * c[1] <= 6 * c[2]
        \/ o = 4 /\ label = "REAL" /\ 10 * c[1] > 6 * c[2] /\ 10 * c[1] <= 8 * c[2]
        \/ o = 5 /\ label = "REAL" /\ 10 * c[1] > 8 * c[2]}

\* C2: convert_to_liar_scale returns the ordinal of the one table row the
\* pair satisfies; exactly 0.6 gives 2 (FAKE) or 3 (REAL) and exactly 0.8
\* gives 1 (FAKE) or 4 (REAL).
C2_ThresholdTable ==
    pc = "scaled" =>
        LET label == ret.prediction_label
            c == ret.final_prob
        IN /\ TableRows(label, c) = {liar_prediction}
           /\ (10 * c[1] = 6 * c[2] => liar_prediction = IF label = "FAKE" THEN 2 ELSE 3)
           /\ (10 * c[1] = 8 * c[2] => liar_prediction = IF label = "FAKE" THEN 1 ELSE 4)

\* Reached: a FAKE verdict with confidence exactly 0.8 mapped to 1.
C2_Witness ==
    /\ pc = "scaled" /\ ret.prediction_label = "FAKE"
    /\ ret.final_prob = <<4, 5>> /\ liar_prediction = 1

\* Number of results of the current call that voted REAL (1).
RealVotes == Cardinality({i \in DOMAIN results : results[i].binary_prediction = 1})
\* Indices of the results of the current call that carry a probability.
HasProbability(r) == "probability" \in DOMAIN r
Reported == {i \in DOMAIN results : HasProbability(results[i])}

\* C3: the label is FAKE exactly when the mean of the 0/1 predictions of
\* all results is strictly below 0.5; a tie at 0.5 gives REAL.
C3_LabelIsMajorityTieReal ==
    pc = "returned" =>
        /\ results # <<>>
        /\ (ret.prediction_label = "FAKE") = (2 * RealVotes < Len(results))
        /\ (ret.prediction_label = "REAL") = (2 * RealVotes >= Len(results))

\* Reached: a tie between a vote for 0 without probability and a vote for 1
\* with probability 0.7, resolved to REAL.
C3_Witness ==
    /\ pc = "returned" /\ Len(results) = 2
    /\ results[1].binary_prediction = 0 /\ ~HasProbability(results[1])
    /\ results[2].binary_prediction = 1 /\ results[2].probability = 7
    /\ ret.prediction_label = "REAL"

RECURSIVE ReportedSum(_)
ReportedSum(rs) ==
    IF rs = <<>> THEN 0
    ELSE (IF HasProbability(Head(rs)) THEN Head(rs).probability ELSE 0) + ReportedSum(Tail(rs))

\* C4: the confidence is the mean of the probabilities over only the
\* results that reported one; when none did, and only then, it is
\* |mean vote - 0.5| * 2.
C4_ConfidenceIsMeanOfReported ==
    pc = "returned" =>
        LET c == ret.final_prob
            n == Len(results)
            k == Cardinality(Reported)
            d == 2 * RealVotes - n
        IN /\ c[2] > 0
           /\ (k > 0 => c[1] * 10 * k = ReportedSum(results) * c[2])
           /\ (k = 0 => c[1] * n = (IF d < 0 THEN -d ELSE d) * c[2])

\* Reached: three results, one of them the decision tree's without a
\* probability, the other two reporting 0.6 and 0.9: confidence 0.75.
C4_Witness ==
    /\ pc = "returned" /\ Len(results) = 3 /\ Cardinality(Reported) = 2
    /\ ReportedSum(results) = 15
    /\ ret.final_prob[1] * 4 = 3 * ret.final_prob[2]

\* load_models has just raised: nothing after it runs unless it returned.
LoadRaised == pc = "raised" /\ ~models_loaded

\* C5: for each of the four classifiers, when its file is missing or does
\* not deserialize while the vectorizer and at least one other classifier
\* load, load_models returns without raising, marks the registry loaded,
\* leaves that slot absent and every other loadable classifier populated.
C5_EachClassifierFailureTolerated ==
    \A f \in Classifiers :
        (/\ disk[f] # "ok"
         /\ disk[Vectorizer] = "ok"
         /\ \E g \in Classifiers \ {f} : disk[g] = "ok") =>
            /\ ~LoadRaised
            /\ (pc = "vectorize" =>
                  /\ models_loaded
                  /\ Slot(f) = None
                  /\ \A g \in Classifiers \ {f} : disk[g] = "ok" => Slot(g) = Loaded)

\* Classifiers loaded, and those that contributed a result to the current call.
Present == {f \in Classifiers : Slot(f) # None}
Contributors == {results[i].model : i \in DOMAIN results}

\* C6: an exception of one classifier at call time never aborts the call
\* when another one succeeds: a call that collected a result does not
\* raise, the failing models are absent from the results, every other
\* loaded model was invoked and contributed exactly one result, and the
\* returned label and confidence are those of the remaining results.
C6_InvocationFailureIsIsolated ==
    /\ (pc = "raised" => results = <<>>)
    /\ (pc \in {"aggregate", "returned"} =>
          /\ failed \subseteq Present
          /\ Contributors = Present \ failed
          /\ Len(results) = Cardinality(Contributors))
    /\ (pc = "returned" => C3_LabelIsMajorityTieReal /\ C4_ConfidenceIsMeanOfReported)

\* Reached: two classifiers raised, the two others gave the returned verdict.
C6_Witness ==
    /\ pc = "returned" /\ failed = {"modelbnb.pkl", "rfmodel.pkl"}
    /\ Contributors = {"modelDTC.pkl", "model2.pkl"}
    /\ ret.prediction_label = "FAKE"

\* C7: when the vectorizer does not load, load_models raises whatever the
\* classifiers did, and the registry is never marked loaded.
C7_VectorizerFailureIsFatal ==
    /\ [](disk[Vectorizer] # "ok" => ~models_loaded /\ tfidfvect = None)
    /\ [][(pc = "load_vect" /\ disk[Vectorizer] # "ok") =>
            (/\ pc' = "raised"
             /\ exc' \in {"FileNotFoundError", "UnpicklingError"}
             /\ ~models_loaded')]_vars

\* Reached: all four classifiers loaded, the vectorizer did not, load_models raised.
C7_Witness ==
    /\ pc = "raised" /\ exc = "UnpicklingError" /\ ~models_loaded
    /\ B = Loaded /\ DCT = Loaded /\ PCA = Loaded /\ rf = Loaded
    /\ loads[Vectorizer] = 1

\* C8: when all four classifier slots are absent after the load attempts,
\* load_models raises although the vectorizer loaded, the registry is not
\* marked loaded, and main() prints [3, 0.5].
C8_NoClassifierIsFatal ==
    /\ [][(pc = "check_any" /\ B = None /\ DCT = None /\ PCA = None /\ rf = None) =>
            (pc' = "raised" /\ exc' = "ValueError" /\ ~models_loaded')]_vars
    /\ []((/\ UsableTextRun /\ pc = "exit" /\ tfidfvect = Loaded
           /\ B = None /\ DCT = None /\ PCA = None /\ rf = None) =>
             (/\ ~models_loaded
              /\ stdout = <<[liar_prediction |-> 3, confidence |-> <<1, 2>>]>>
              /\ exit_status = 0))

\* Reached: main() has exited after a load that got the vectorizer and no classifier.
C8_Witness ==
    /\ UsableTextRun /\ pc = "exit" /\ exc = "ValueError"
    /\ tfidfvect = Loaded /\ loads["rfmodel.pkl"] = 1
    /\ B = None /\ DCT = None /\ PCA = None /\ rf = None
    /\ ~models_loaded /\ Len(stdout) = 1

\* C9: once a load_models call has completed successfully, every later
\* call returns at once: no deserialization is attempted and the
\* vectorizer and the four slots keep their values.
C9_LoadIsIdempotent ==
    [][models_loaded =>
          (/\ <<B, DCT, PCA, rf, tfidfvect, models_loaded>>' = <<B, DCT, PCA, rf, tfidfvect, models_loaded>>
           /\ loads' = loads
           /\ (pc = "load_models" => pc' = "vectorize"))]_vars

\* Reached: the third request of a process has passed load_models, every
\* artifact having been deserialized once.
C9_Witness ==
    /\ caller = "test_prediction" /\ calls = 2 /\ pc = "vectorize"
    /\ models_loaded /\ \A a \in Artifacts : loads[a] = 1

\* C10: each classifier slot is populated at most once in a process, and a
\* classifier whose load failed is never loaded again and stays absent,
\* also in calls that follow a load_models call that raised.
C10_LoadedOnceFailurePermanent ==
    \A f \in Classifiers :
        /\ stores[f] <= 1
        /\ (loads[f] > stores[f] => (loads[f] = 1 /\ Slot(f) = None))

\* main() was given no text, an empty text or only spaces.
BlankRun == caller = "main" /\ (Len(argv) = 0 \/ \A i \in DOMAIN argv[1] : argv[1][i] = " ")

\* C12: given no text, an empty text or a whitespace-only text, main()
\* prints [3, 0.5] and exits 0 without entering the pipeline: load_models
\* is never called, nothing is deserialized and the registry stays as it
\* was at start.
C12_BlankTextSkipsPipeline ==
    BlankRun =>
        /\ pc \in {"start", "exit"}
        /\ ~models_loaded
        /\ B = None /\ DCT = None /\ PCA = None /\ rf = None /\ tfidfvect = None
        /\ \A a \in Artifacts : loads[a] = 0
        /\ (pc = "exit" =>
              /\ stdout = <<[liar_prediction |-> 3, confidence |-> <<1, 2>>]>>
              /\ exit_status = 0)

\* Reached: main() has exited on a text made of one space, with every model file loadable.
C12_Witness ==
    /\ caller = "main" /\ argv = <<(<<" ">>)>> /\ pc = "exit"
    /\ \A a \in Artifacts : disk[a] = "ok"
    /\ exit_status = 0 /\ Len(stdout) = 1

\* C13: the confidence predict_ensemble returns lies in [0,1], as the mean
\* of one to three reported probabilities and as the vote-distance fallback.
C13_ConfidenceInUnitInterval ==
    pc = "returned" =>
        /\ Len(results) \in 1..4
        /\ ret.final_prob[2] > 0
        /\ 0 <= ret.final_prob[1]
        /\ ret.final_prob[1] <= ret.final_prob[2]

\* Reached: three probabilities of 1.0 and a fourth result without one, confidence exactly 1.
C13_Witness ==
    /\ pc = "returned" /\ Len(results) = 4 /\ Cardinality(Reported) = 3
    /\ ReportedSum(results) = 30
    /\ ret.final_prob[1] = ret.final_prob[2]

\* Positions inside predict_ensemble after its call of load_models.
AfterLoad == {"vectorize", "run_B", "run_DCT", "run_PCA", "run_rf", "aggregate", "returned"}

\* C15: whenever the registry is marked loaded, the vectorizer and at least
\* one classifier are present; predict_ensemble reaches the vectorizer
\* only with the registry marked loaded.
C15_LoadedMeansUsable ==
    /\ (models_loaded =>
          /\ tfidfvect = Loaded
          /\ (B # None \/ DCT # None \/ PCA # None \/ rf # None))
    /\ (pc \in AfterLoad => models_loaded /\ tfidfvect # None)

\* Reached: the vectorizer is about to be used with the decision tree as the only classifier.
C15_Witness ==
    /\ pc = "vectorize" /\ models_loaded /\ tfidfvect = Loaded
    /\ B = None /\ DCT = Loaded /\ PCA = None /\ rf = None

ProbabilityModels == {"modelbnb.pkl", "model2.pkl", "rfmodel.pkl"}

\* The labels, and the reported probabilities, of a result sequence, in order.
RECURSIVE VotesOf(_)
VotesOf(rs) == IF rs = <<>> THEN <<>> ELSE <<Head(rs).binary_prediction>> \o VotesOf(Tail(rs))

RECURSIVE ProbabilitiesOf(_)
ProbabilitiesOf(rs) ==
    IF rs = <<>> THEN <<>>
    ELSE (IF HasProbability(Head(rs)) THEN <<Head(rs).probability>> ELSE <<>>) \o ProbabilitiesOf(Tail(rs))

\* C16: at every point of predict_ensemble the vote list and the
\* probability list are those of whole results: a model of the three that
\* report a probability has added both or neither, the decision tree a
\* label only, a model that raised nothing, and an absent slot was never
\* invoked; so the probabilities are never more than the labels.
C16_ContributionsAreAllOrNothing ==
    pc \in {"run_B", "run_DCT", "run_PCA", "run_rf", "aggregate", "returned"} =>
        /\ predictions = VotesOf(results)
        /\ prob_values = ProbabilitiesOf(results)
        /\ Len(prob_values) <= Len(predictions)
        /\ \A i \in DOMAIN results : HasProbability(results[i]) = (results[i].model \in ProbabilityModels)
        /\ Contributors \cap failed = {}
        /\ Contributors \cup failed \subseteq Present

\* Reached: the naive Bayes model raised, the decision tree and the random
\* forest contributed, the PCA slot is absent.
C16_Witness ==
    /\ pc = "aggregate" /\ PCA = None
    /\ failed = {"modelbnb.pkl"}
    /\ Len(predictions) = 2 /\ Len(prob_values) = 1
    /\ Contributors = {"modelDTC.pkl", "rfmodel.pkl"}

\* The caller has converted the verdict of the current call to the LIAR scale.
Converted ==
    /\ exc = "none"
    /\ \/ caller = "main" /\ pc = "exit" /\ UsableTextRun
       \/ caller = "test_prediction" /\ pc \in {"start", "exit"} /\ calls > 0

\* C17: when every contributing model votes 0, some probability is
\* reported and every reported probability is below 0.5, the ordinal is 2;
\* ordinals 0 and 1 come only with a FAKE label and either a mean reported
\* probability above 0.6 or no reported probability at all.
C17_FakeConfidenceIsRealProbability ==
    Converted =>
        LET k == Cardinality(Reported) IN
        /\ ((/\ RealVotes = 0
             /\ k > 0
             /\ \A i \in Reported : results[i].probability < 5) => liar_prediction = 2)
        /\ (liar_prediction \in {0, 1} =>
              /\ ret.prediction_label = "FAKE"
              /\ (k = 0 \/ ReportedSum(results) > 6 * k))

\* Reached: main() printed ordinal 2 for three unanimous votes for 0 with
\* probabilities 0.0, 0.2 and 0.2 of class 1.
C17_Witness ==
    /\ Converted /\ caller = "main"
    /\ Len(results) = 3 /\ RealVotes = 0 /\ Cardinality(Reported) = 3
    /\ ReportedSum(results) = 4
    /\ liar_prediction = 2 /\ stdout[1].liar_prediction = 2

\* Threads that have passed the check of line 37 and are loading.
Loading == {t \in Threads : pc[t] \in {"find_dir", "load_B", "load_DCT", "load_PCA", "load_rf", "load_vect", "check_any"}}

\* C11: with several threads calling predict_ensemble, at most one of them
\* is loading at any time, and once a load_models call has completed
\* successfully nothing is deserialized and no slot nor the vectorizer is
\* assigned again.
C11_InitialisationGuarded ==
    [][/\ Cardinality(Loading') <= 1
       /\ (models_loaded =>
             /\ loads' = loads
             /\ stores' = stores
             /\ <<B, DCT, PCA, rf, tfidfvect>>' = <<B, DCT, PCA, rf, tfidfvect>>)]_vars


\* ---------------------------------------------------------------------
\* The two reductions of lines 196 and 206 in floating point.
\*
\* Spec computes np.mean exactly, which is right for everything that does
\* not depend on the order of the additions. np.mean adds the floats one
\* after the other and rounds every partial sum, then rounds the quotient;
\* SpecOrder keeps that rounding, in a binary format of Precision
\* significant bits (round to nearest, ties to even; 53 bits in the
\* float64 of the code). A float is held as a whole number of units of
\* 1/One.
\* ---------------------------------------------------------------------
One == 2^8

RECURSIVE BitLen(_)
BitLen(n) == IF n = 0 THEN 0 ELSE 1 + BitLen(n \div 2)

\* The float nearest to a/b units: the quotient kept to Precision
\* significant bits, a tie going to the even significand.
FloatRound(a, b) ==
    LET L == BitLen(a \div b)
        q == IF L > Precision THEN 2^(L - Precision) ELSE 1
        f == a \div (b * q)
        r2 == 2 * (a - f * b * q)
    IN  IF r2 < b * q THEN f * q
        ELSE IF r2 > b * q THEN (f + 1) * q
        ELSE IF f % 2 = 0 THEN f * q ELSE (f + 1) * q

\* The sum of a non-empty list as np.add.reduce forms it: left to right,
\* every partial sum rounded.
RECURSIVE FloatSumFrom(_, _)
FloatSumFrom(acc, s) == IF s = <<>> THEN acc ELSE FloatSumFrom(FloatRound(acc + Head(s), 1), Tail(s))

\* Bug variant: the first element standing for the whole list.
np_mean_first(s) == Head(s)

\* np.mean of a non-empty list of floats: the rounded sum, divided by the
\* length and rounded.
np_mean(s) == FloatRound(FloatSumFrom(Head(s), Tail(s)), Len(s))

RECURSIVE AsFloats(_)
AsFloats(preds) == IF preds = <<>> THEN <<>> ELSE <<Head(preds) * One>> \o AsFloats(Tail(preds))

\* Lines 196-209 on floats: the label and the confidence of a non-empty
\* vote list and its probability list.
Outcome(preds, probs) ==
    LET final_predict == np_mean(AsFloats(preds))
        d == IF final_predict < One \div 2 THEN One \div 2 - final_predict ELSE final_predict - One \div 2
    IN  [prediction_label |-> IF final_predict < One \div 2 THEN "FAKE" ELSE "REAL",
         final_prob |-> <<IF probs # <<>> THEN np_mean(probs) ELSE FloatRound(FloatRound(d, 1) * 2, 1), One>>]

\* The probabilities a classifier can report here: the floats of [0, 1]
\* on a grid of eighths.
InputFloats == {x \in {(One \div 8) * n : n \in 0..8} : FloatRound(x, 1) = x}

\* What one model can add to a run: nothing, or its result.
Contribution(m) ==
    {<<>>} \cup
    IF m = "model1.pkl"
      THEN {<<[model |-> m, binary_prediction |-> l]>> : l \in Labels}
      ELSE {<<[model |-> m, binary_prediction |-> l, probability |-> x]>> : l \in Labels, x \in InputFloats}

\* The result sequences predict_ensemble can build, in the order of lines 151-191.
ResultSeqs ==
    {b \o d \o p \o r : b \in Contribution("modelbnb.pkl"), d \in Contribution("model1.pkl"),
                        p \in Contribution("model2.pkl"), r \in Contribution("rfmodel.pkl")} \ {<<>>}

Orders(n) == {f \in [1..n -> 1..n] : \A i, j \in 1..n : f[i] = f[j] => i = j}

Votes(rs) == [i \in 1..Len(rs) |-> rs[i].binary_prediction]

RECURSIVE Probs(_)
Probs(rs) ==
    IF rs = <<>> THEN <<>>
    ELSE (IF "probability" \in DOMAIN Head(rs) THEN <<Head(rs).probability>> ELSE <<>>) \o Probs(Tail(rs))

InitOrder ==
    /\ disk = [a \in Artifacts |-> "ok"]
    /\ models_loaded = TRUE
    /\ B = Loaded /\ DCT = Loaded /\ PCA = Loaded /\ rf = Loaded /\ tfidfvect = Loaded
    /\ caller = "test_prediction"
    /\ argv = <<>>
    /\ pc = "aggregate"
    /\ calls = 0
    /\ predictions = <<>> /\ prob_values = <<>>
    /\ exc = "none"
    /\ ret = None
    /\ liar_prediction = None
    /\ stdout = <<>>
    /\ exit_status = None
    /\ results \in ResultSeqs
    /\ failed = {}
    /\ loads = [a \in Artifacts |-> 1]
    /\ stores = [a \in Artifacts |-> 1]

\* Lines 196-211 applied to the results taken in another order: the two
\* lists are those of the permuted sequence.
AggregatePermuted ==
    /\ pc = "aggregate"
    /\ \E f \in Orders(Len(results)) :
         LET rs == [i \in 1..Len(results) |-> results[f[i]]]
         IN  /\ predictions' = Votes(rs)
             /\ prob_values' = Probs(rs)
             /\ ret' = Outcome(Votes(rs), Probs(rs))
    /\ pc' = "aggregated"
    /\ UNCHANGED <<disk, globals, caller, argv, calls, results, failed, exc, liar_prediction,
                   stdout, exit_status, hist>>

NextOrder == AggregatePermuted

SpecOrder == InitOrder /\ [][NextOrder]_vars

\* The outcome of the results in the order the code takes them.
InOrder == Outcome(Votes(results), Probs(results))

\* C14 as stated: for every non-empty sequence of model results, any
\* permutation of the sequence yields the same label and the same
\* confidence.
C14_AnyOrderSameOutcome == pc = "aggregated" => ret = InOrder

\* C14, amended: any permutation of a non-empty sequence of model results
\* yields the same label, and the same confidence when at most two of the
\* results report a probability; when none does the confidence comes from
\* the votes and is the same too.
C14_OrderIndependentUpToRounding ==
    pc = "aggregated" =>
        /\ ret.prediction_label = InOrder.prediction_label
        /\ Len(prob_values) <= 2 => ret.final_prob = InOrder.final_prob

\* Two results with different probabilities and different labels, taken in
\* the other order.
C14_Witness ==
    /\ pc = "aggregated"
    /\ Len(prob_values) = 2
    /\ prob_values[1] # prob_values[2]
    /\ predictions[1] # predictions[2]
    /\ prob_values # Probs(results)

====
